---- MODULE Spec2Model ----
(***************************************************************************)
(* Model of the OpenGrab EPM v3 magnet actuation sequencer                 *)
(* (firmware/src/magnet/magnet.cpp): the command gate turnOn/turnOff, the  *)
(* poll tick pollOn/pollOff and the state they share.  The charger driver, *)
(* the actuator (board::setMagnetPos/Neg) and the monotonic clock are the  *)
(* environment: the charger's status and error flags are chosen            *)
(* nondeterministically on every poll, the clock advances on its own.      *)
(***************************************************************************)
EXTENDS Integers, Sequences, FiniteSets, TLC

(***************************************************************************)
(* Program constants.                                                      *)
(***************************************************************************)

\* TurnOffCycleArray[][2]: { voltage, polarity }, in source order.
TurnOffCycleTable ==
    << <<475, 0>>, <<450, 0>>, <<300, 1>>, <<290, 0>>, <<280, 1>>, <<270, 0>>,
       <<260, 1>>, <<250, 0>>, <<240, 1>>, <<230, 0>>, <<220, 1>>, <<210, 0>>,
       <<200, 1>>, <<190, 0>>, <<180, 1>>, <<170, 0>>, <<160, 1>>, <<150, 0>>,
       <<140, 1>>, <<130, 0>>, <<120, 1>>, <<110, 0>>, <<100, 1>>, <<90, 0>>,
       <<80, 1>>,  <<70, 0>>,  <<60, 1>>,  <<50, 0>>,  <<40, 1>>,  <<30, 0>>,
       <<20, 1>>,  <<20, 0>>,  <<20, 1>>,  <<20, 0>>,  <<20, 1>>,  <<20, 0>>,
       <<20, 1>>,  <<20, 0>>,  <<20, 1>>,  <<20, 0>>,  <<20, 1>>,  <<20, 0>>,
       <<20, 1>> >>

\* sizeof(TurnOffCycleArray) / sizeof(TurnOffCycleArray[0])
TurnOffCycleArraySize == Len(TurnOffCycleTable)

\* TurnOffCycleArray[i] with the source's zero-based index.
TurnOffCycleArray(i) == TurnOffCycleTable[i + 1]

\* MonotonicDuration::fromMSec(2500), in milliseconds.
MinCommandInterval == 2500

\* chrg.construct<unsigned>(475) in pollOn.
OnVoltage == 475

\* remaining_cycles += 3 in turnOff.
TurnOffSkipCycles == 3

\* magnet.hpp (not among the sources): the clamping range of turnOn.
MinTurnOnCycles == 1
MaxCycles == 10

\* charger::Charger::ErrorFlagsBitLength, charger.hpp (not among the sources):
\* the width of the charger's error-flag bitfield.  getStatusFlags() places
\* its two bits right above it, in a std::uint8_t.
ErrorFlagsBitLength == 5

(***************************************************************************)
(* Bounds of the model.                                                    *)
(***************************************************************************)

\* The clock advances in steps of MinCommandInterval / TimeDivisor ...
TimeDivisor == 2
\* ... at most MaxTicks times.
MaxTicks == 3
\* The charger's error flags range over 0 .. MaxErrorFlags.
MaxErrorFlags == 1
\* The hardpoint ID read from the DIP switch; bus messages are addressed to
\* it or to the next ID.
DipSwitch == 1

TimeStep == MinCommandInterval \div TimeDivisor
MaxTime == MaxTicks * TimeStep

\* The cycle counts requested from turnOn: below the minimum, inside the
\* range, the maximum, just above it and far above it.
RequestedCycles == {0, 1, 2, MaxCycles, MaxCycles + 1, 50}

\* The payloads of the bus command messages: off, on, on with more cycles
\* than MaxCycles.
BusCommands == {0, 1, MaxCycles + 1}
HardpointIDs == {DipSwitch, DipSwitch + 1}

ChargerStatus == {"InProgress", "Done", "Error"}
ErrorFlagValues == 0 .. MaxErrorFlags

(***************************************************************************)
(* State.                                                                  *)
(***************************************************************************)
VARIABLES
    remaining_cycles,       \* >0 turning on, <0 turning off, 0 idle
    health,                 \* "Ok" | "Warning" | "Error"
    charger_status_flags,   \* last error flags read from the charger
    magnet_is_on,           \* Pole State
    last_command_ts,        \* time of the last admitted command (ms)
    chrg,                   \* the lazily constructed charger instance
    now,                    \* board::clock::getMonotonic() (ms)
    last_command,           \* handleHardpointCommand's static last_command
    bus_payloads,           \* the payloads the bus may still send to this
                            \*   hardpoint: all of them, or the one it has
                            \*   settled on
    \* Observation of the run (not program state):
    last_call,              \* the call that produced this state
    magnet_cmd,             \* actuator polarity commanded by that call
    started,                \* target voltages of the charger instances
                            \*   constructed since the last admission
    trace,                  \* <<target voltage, actuator command>> of the
                            \*   pulses completed (Done) since the last
                            \*   admission
    clean,                  \* every poll since the last admission saw Done
    admitted_cmd            \* the last admitted command, and the Pole State
                            \*   it found

prog_vars == <<remaining_cycles, health, charger_status_flags, magnet_is_on,
               last_command_ts, chrg>>
obs_vars == <<last_call, magnet_cmd, started, trace, clean, admitted_cmd>>
bus_vars == <<last_command, bus_payloads>>
vars == <<remaining_cycles, health, charger_status_flags, magnet_is_on,
          last_command_ts, chrg, now, last_call, magnet_cmd, started, trace,
          clean, admitted_cmd, last_command, bus_payloads>>

\* uavcan::LazyConstructor<charger::Charger>: empty, or holding an instance
\* constructed for a target voltage.
NoCharger == [constructed |-> FALSE, target |-> 0]
Constructed(v) == [constructed |-> TRUE, target |-> v]

Call(op, n, status, admitted) ==
    [op |-> op, n |-> n, status |-> status, admitted |-> admitted]

Command(op, n, was_on) == [op |-> op, n |-> n, was_on |-> was_on]

\* std::numeric_limits<unsigned>::max(), i.e. unsigned(-1): the "impossible"
\* initial value of last_command, which no 16-bit payload equals.
LastCommandInitial == -1

Init ==
    /\ last_command = LastCommandInitial
    /\ bus_payloads = BusCommands
    /\ remaining_cycles = 0
    /\ health = "Ok"
    /\ charger_status_flags = 0
    /\ magnet_is_on = FALSE
    /\ last_command_ts = 0
    /\ chrg = NoCharger
    /\ now = 0
    /\ last_call = Call("none", 0, "none", FALSE)
    /\ magnet_cmd = "none"
    /\ started = << >>
    /\ trace = << >>
    /\ clean = TRUE
    /\ admitted_cmd = Command("none", 0, FALSE)

(***************************************************************************)
(* Command gate.                                                           *)
(***************************************************************************)
Max(a, b) == IF a > b THEN a ELSE b
Min(a, b) == IF a < b THEN a ELSE b

\* Mutant: the rate limit is never applied.
RateLimited_Never(redundant, ts, last_ts) == FALSE

\* Mutant: the rate limit is applied to every command, redundant or not.
RateLimited_AnyCommand(redundant, ts, last_ts) ==
    ts - last_ts < MinCommandInterval

\* The "Rate limiting" early return of turnOn/turnOff: redundant is
\* magnet_is_on for turnOn and !magnet_is_on for turnOff.
RateLimited(redundant, ts, last_ts) ==
    redundant /\ (ts - last_ts < MinCommandInterval)

\* Mutant: the upper clamp is missing.
ClampCycles_NoUpperBound(num_cycles) == Max(MinTurnOnCycles, num_cycles)

\* std::max<unsigned>(MinTurnOnCycles, n) then std::min<unsigned>(MaxCycles, .)
ClampCycles(num_cycles) ==
    Min(MaxCycles, Max(MinTurnOnCycles, num_cycles))

\* Mutant: the skip offset is applied with the wrong sign.
TurnOffCycles_WrongSign(is_on) ==
    IF is_on THEN -TurnOffCycleArraySize
             ELSE -TurnOffCycleArraySize - TurnOffSkipCycles

\* Mutant: the leading entries are never skipped.
TurnOffCycles_NoSkip(is_on) == -TurnOffCycleArraySize

\* -int(TurnOffCycleArraySize), += 3 if the magnet is not on.
TurnOffCycles(is_on) ==
    IF is_on THEN -TurnOffCycleArraySize
             ELSE -TurnOffCycleArraySize + TurnOffSkipCycles

\* Mutant: the busy check is missing.
CommandConsidered_NoBusyCheck(cycles) == TRUE

\* if (remaining_cycles == 0): the command is looked at only when idle.
CommandConsidered(cycles) == cycles = 0

Admit(op, n, cycles) ==
    /\ last_command_ts' = now
    /\ remaining_cycles' = cycles
    /\ started' = << >>
    /\ trace' = << >>
    /\ clean' = TRUE
    /\ admitted_cmd' = Command(op, n, magnet_is_on)

Reject ==
    UNCHANGED <<remaining_cycles, last_command_ts, started, trace, clean,
                admitted_cmd>>

turnOn(num_cycles) ==
    /\ IF CommandConsidered(remaining_cycles)
          /\ ~RateLimited(magnet_is_on, now, last_command_ts)
       THEN /\ Admit("turnOn", num_cycles, ClampCycles(num_cycles))
            /\ last_call' = Call("turnOn", num_cycles, "none", TRUE)
       ELSE /\ Reject
            /\ last_call' = Call("turnOn", num_cycles, "none", FALSE)
    /\ magnet_cmd' = "none"
    /\ UNCHANGED <<health, charger_status_flags, magnet_is_on, chrg, now>>

turnOff ==
    /\ IF CommandConsidered(remaining_cycles)
          /\ ~RateLimited(~magnet_is_on, now, last_command_ts)
       THEN /\ Admit("turnOff", 0, TurnOffCycles(magnet_is_on))
            /\ last_call' = Call("turnOff", 0, "none", TRUE)
       ELSE /\ Reject
            /\ last_call' = Call("turnOff", 0, "none", FALSE)
    /\ magnet_cmd' = "none"
    /\ UNCHANGED <<health, charger_status_flags, magnet_is_on, chrg, now>>

(***************************************************************************)
(* Poll tick.                                                              *)
(***************************************************************************)

\* if (!chrg.isConstructed()) chrg.construct<unsigned>(target);
ConstructIfNeeded(c, target) ==
    IF c.constructed THEN c ELSE Constructed(target)

StartedAfter(c, target) ==
    IF c.constructed THEN started ELSE Append(started, target)

\* Mutant: an unfinished charge is thrown away and restarted next tick.
pollInProgress_Restart(c) ==
    /\ chrg' = NoCharger
    /\ magnet_cmd' = "none"
    /\ UNCHANGED <<remaining_cycles, health, magnet_is_on, trace>>

\* status == InProgress: nothing to do; c is the instance that was polled.
pollInProgress(c) ==
    /\ chrg' = c
    /\ magnet_cmd' = "none"
    /\ UNCHANGED <<remaining_cycles, health, magnet_is_on, trace>>

\* Mutant: the failed pulse is retried, the sequence goes on.
pollError_Retry ==
    /\ chrg' = NoCharger
    /\ health' = "Error"
    /\ magnet_cmd' = "none"
    /\ UNCHANGED <<remaining_cycles, magnet_is_on, trace>>

\* Mutant: an aborted sequence also resets Pole State.
pollError_ResetPole ==
    /\ chrg' = NoCharger
    /\ remaining_cycles' = 0
    /\ health' = "Error"
    /\ magnet_cmd' = "none"
    /\ magnet_is_on' = FALSE
    /\ UNCHANGED trace

\* The final else of pollOn and of pollOff: the charger reported an error.
pollError ==
    /\ chrg' = NoCharger
    /\ remaining_cycles' = 0
    /\ health' = "Error"
    /\ magnet_cmd' = "none"
    /\ UNCHANGED <<magnet_is_on, trace>>

\* Mutant: Health is not reset by a successful pulse.
pollOnDone_KeepHealth(c) ==
    /\ magnet_cmd' = "pos"
    /\ magnet_is_on' = TRUE
    /\ chrg' = NoCharger
    /\ remaining_cycles' = remaining_cycles - 1
    /\ UNCHANGED health
    /\ trace' = Append(trace, <<c.target, "pos">>)

\* Mutant: the charger instance is not destroyed after the pulse.
pollOnDone_KeepCharger(c) ==
    /\ magnet_cmd' = "pos"
    /\ magnet_is_on' = TRUE
    /\ chrg' = c
    /\ remaining_cycles' = remaining_cycles - 1
    /\ health' = "Ok"
    /\ trace' = Append(trace, <<c.target, "pos">>)

\* Mutant: the counter is decremented twice.
pollOnDone_DoubleDecrement(c) ==
    /\ magnet_cmd' = "pos"
    /\ magnet_is_on' = TRUE
    /\ chrg' = NoCharger
    /\ remaining_cycles' = remaining_cycles - 2
    /\ health' = "Ok"
    /\ trace' = Append(trace, <<c.target, "pos">>)

\* pollOn, status == Done.
pollOnDone(c) ==
    /\ magnet_cmd' = "pos"
    /\ magnet_is_on' = TRUE
    /\ chrg' = NoCharger
    /\ remaining_cycles' = remaining_cycles - 1
    /\ health' = "Ok"
    /\ trace' = Append(trace, <<c.target, "pos">>)

pollOn(status, flags) ==
    LET c == ConstructIfNeeded(chrg, OnVoltage) IN
    /\ started' = StartedAfter(chrg, OnVoltage)
    /\ charger_status_flags' = flags
    /\ CASE status = "InProgress" -> pollInProgress(c)
         [] status = "Done"       -> pollOnDone(c)
         [] OTHER                 -> pollError

\* Mutant: the table is walked from its end.
CycleIndex_Reversed(cycles) == (-cycles) - 1

\* TurnOffCycleArraySize - unsigned(-remaining_cycles).  pollOff runs only
\* with remaining_cycles < 0, so unsigned(-remaining_cycles) is its magnitude;
\* the subtraction would wrap around (and index the table out of bounds) only
\* for a magnitude above the table's size, where this difference is negative.
CycleIndex(cycles) == TurnOffCycleArraySize - (-cycles)

\* Mutant: a positive pulse of the turn-off ramp marks the magnet as on.
pollOffDone_PosSetsOn(c, item) ==
    /\ IF item[2] # 0
       THEN /\ magnet_cmd' = "pos"
            /\ magnet_is_on' = TRUE
       ELSE /\ magnet_cmd' = "neg"
            /\ magnet_is_on' = FALSE
    /\ chrg' = NoCharger
    /\ remaining_cycles' = remaining_cycles + 1
    /\ health' = "Ok"
    /\ trace' = Append(trace, <<c.target, magnet_cmd'>>)

\* pollOff, status == Done; item is cycle_array_item.
pollOffDone(c, item) ==
    /\ IF item[2] # 0
       THEN /\ magnet_cmd' = "pos"
            /\ UNCHANGED magnet_is_on
       ELSE /\ magnet_cmd' = "neg"
            /\ magnet_is_on' = FALSE
    /\ chrg' = NoCharger
    /\ remaining_cycles' = remaining_cycles + 1
    /\ health' = "Ok"
    /\ trace' = Append(trace, <<c.target, magnet_cmd'>>)

pollOff(status, flags) ==
    LET cycle_index == CycleIndex(remaining_cycles)
        cycle_array_item == TurnOffCycleArray(cycle_index)
        c == ConstructIfNeeded(chrg, cycle_array_item[1])
    IN
    /\ started' = StartedAfter(chrg, cycle_array_item[1])
    /\ charger_status_flags' = flags
    /\ CASE status = "InProgress" -> pollInProgress(c)
         [] status = "Done"       -> pollOffDone(c, cycle_array_item)
         [] OTHER                 -> pollError

\* Mutant: an idle poll clears the latched charger flags.
pollIdle_ClearFlags ==
    /\ magnet_cmd' = "none"
    /\ charger_status_flags' = 0
    /\ UNCHANGED <<remaining_cycles, health, magnet_is_on, last_command_ts,
                   chrg, started, trace>>

\* poll() with an idle sequencer: nothing happens.
pollIdle ==
    /\ magnet_cmd' = "none"
    /\ UNCHANGED <<prog_vars, started, trace>>

\* poll(): status and flags are what the charger reports if it is polled.
poll(status, flags) ==
    /\ IF remaining_cycles > 0 THEN pollOn(status, flags)
       ELSE IF remaining_cycles < 0 THEN pollOff(status, flags)
       ELSE pollIdle
    /\ last_call' = Call("poll", 0,
                         IF remaining_cycles = 0 THEN "idle" ELSE status,
                         FALSE)
    /\ clean' = IF remaining_cycles = 0 THEN clean
                ELSE clean /\ status = "Done"
    /\ UNCHANGED <<last_command_ts, now, admitted_cmd>>

(***************************************************************************)
(* Status getters.                                                         *)
(***************************************************************************)
RECURSIVE BitOr(_, _)
\* a | b on non-negative integers.
BitOr(a, b) ==
    IF a = 0 THEN b
    ELSE IF b = 0 THEN a
    ELSE (IF a % 2 = 1 \/ b % 2 = 1 THEN 1 ELSE 0)
         + 2 * BitOr(a \div 2, b \div 2)

\* std::uint8_t(1 << (ErrorFlagsBitLength + k))
StatusFlagBit(k) == (2 ^ (ErrorFlagsBitLength + k)) % 256
StatusFlagSwitchingOn == StatusFlagBit(0)
StatusFlagSwitchingOff == StatusFlagBit(1)

\* Mutant: both switching flags are given the same bit.
getStatusFlags_SameBit ==
    LET x0 == charger_status_flags
        x1 == IF remaining_cycles > 0 THEN BitOr(x0, StatusFlagSwitchingOn)
                                      ELSE x0
    IN  IF remaining_cycles < 0 THEN BitOr(x1, StatusFlagSwitchingOn) ELSE x1

getStatusFlags ==
    LET x0 == charger_status_flags
        x1 == IF remaining_cycles > 0 THEN BitOr(x0, StatusFlagSwitchingOn)
                                      ELSE x0
    IN  IF remaining_cycles < 0 THEN BitOr(x1, StatusFlagSwitchingOff) ELSE x1

isTurnedOn == magnet_is_on

getHealth == health

(***************************************************************************)
(* Environment: the monotonic clock.                                       *)
(***************************************************************************)
ClockAdvance ==
    /\ now + TimeStep <= MaxTime
    /\ now' = now + TimeStep
    /\ last_call' = Call("none", 0, "none", FALSE)
    /\ magnet_cmd' = "none"
    /\ UNCHANGED <<prog_vars, started, trace, clean, admitted_cmd, bus_vars>>

TurnOnCall == (\E n \in RequestedCycles : turnOn(n)) /\ UNCHANGED bus_vars
TurnOffCall == turnOff /\ UNCHANGED bus_vars
PollCall ==
    /\ \E s \in ChargerStatus, f \in ErrorFlagValues : poll(s, f)
    /\ UNCHANGED bus_vars

Next ==
    \/ TurnOnCall
    \/ TurnOffCall
    \/ PollCall
    \/ ClockAdvance

Spec == Init /\ [][Next]_vars

(***************************************************************************)
(* The bus command handler of main.cpp, as the only source of commands.    *)
(***************************************************************************)

\* getHardpointID(): the DIP switch, read once.
getHardpointID == DipSwitch

\* Mutant: the handler acts only on a payload that differs from the last one.
CommandIsNew_IgnoresState(command, is_on, last) == command # last

\* Mutant: && instead of ||.
CommandIsNew_Both(command, is_on, last) ==
    ((command # 0) # is_on) /\ (command # last)

\* (bool(msg.command) != magnet::isTurnedOn()) || (msg.command != last_command)
CommandIsNew(command, is_on, last) ==
    ((command # 0) # is_on) \/ (command # last)

\* Mutant: the cycle count is passed on without the clamp to MaxCycles.
BusCycles_Unclamped(command) == command

\* std::min<decltype(msg.command)>(msg.command, magnet::MaxCycles)
BusCycles(command) == Min(command, MaxCycles)

\* The handler returns without calling into the magnet module.
NoMagnetCall(why) ==
    /\ last_call' = Call("handleHardpointCommand", 0, why, FALSE)
    /\ magnet_cmd' = "none"
    /\ UNCHANGED <<prog_vars, now, started, trace, clean, admitted_cmd>>

handleHardpointCommand(hardpoint_id, command) ==
    /\ IF hardpoint_id # getHardpointID
       THEN /\ NoMagnetCall("ignored")
            /\ UNCHANGED last_command
       ELSE /\ IF CommandIsNew(command, isTurnedOn, last_command)
               THEN IF command = 0
                    THEN turnOff
                    ELSE turnOn(BusCycles(command))
               ELSE NoMagnetCall("redundant")
            /\ last_command' = command
    /\ UNCHANGED bus_payloads

\* A command message arrives; one for this hardpoint carries a payload the
\* bus may still send.
BusMessage ==
    \E id \in HardpointIDs, c \in BusCommands :
        /\ (id = getHardpointID) => (c \in bus_payloads)
        /\ handleHardpointCommand(id, c)

\* A command message for this hardpoint arrives.
BusMessageForMe ==
    \E c \in bus_payloads : handleHardpointCommand(getHardpointID, c)

\* From now on the bus sends this hardpoint the payload c only.
BusSettles ==
    /\ bus_payloads = BusCommands
    /\ \E c \in BusCommands : bus_payloads' = {c}
    /\ UNCHANGED <<prog_vars, now, obs_vars, last_command>>

\* poll(); once the bus has settled, no charger pulse fails any more.
BusPoll ==
    /\ \E s \in ChargerStatus, f \in ErrorFlagValues :
          /\ (bus_payloads # BusCommands) => (s # "Error")
          /\ poll(s, f)
    /\ UNCHANGED bus_vars

\* A poll tick in which the charger reports Done.
BusPollDone ==
    /\ \E f \in ErrorFlagValues : poll("Done", f)
    /\ UNCHANGED bus_vars

BusNext ==
    \/ BusMessage
    \/ BusPoll
    \/ ClockAdvance
    \/ BusSettles

BusSpec == Init /\ [][BusNext]_vars

\* The bus keeps sending, the main loop keeps polling and every charger
\* pulse eventually reports Done.
LiveBusSpec ==
    BusSpec /\ WF_vars(BusMessageForMe) /\ WF_vars(BusPollDone)

\* A poll tick in which the charger reports a terminal outcome.
PollTerminal ==
    /\ \E s \in {"Done", "Error"}, f \in ErrorFlagValues : poll(s, f)
    /\ UNCHANGED bus_vars

\* The main loop calls poll() forever, and every charger instance reports Done
\* or Error after finitely many polls.
FairSpec == Spec /\ WF_vars(PollTerminal)

TypeOK ==
    /\ remaining_cycles \in Int
    /\ health \in {"Ok", "Warning", "Error"}
    /\ charger_status_flags \in ErrorFlagValues
    /\ magnet_is_on \in BOOLEAN
    /\ last_command_ts \in 0 .. MaxTime
    /\ now \in 0 .. MaxTime
    /\ chrg.constructed \in BOOLEAN
    /\ magnet_cmd \in {"none", "pos", "neg"}
    /\ clean \in BOOLEAN
    /\ admitted_cmd.op \in {"none", "turnOn", "turnOff"}
    /\ last_command \in BusCommands \cup {LastCommandInitial}
    /\ bus_payloads \subseteq BusCommands

(***************************************************************************)
(* Properties.                                                             *)
(***************************************************************************)
CommandStep == TurnOnCall \/ TurnOffCall

\* C1: at most one sequence in flight.  A turnOn(n) or turnOff() called while
\* a sequence is active (remaining_cycles # 0) is rejected and leaves the
\* counter, Pole State, last-command timestamp, Health, error flags and the
\* charger instance unchanged, as well as the record of the running sequence;
\* nothing is queued: the counter leaves 0 only in the step of an admitted
\* command, never in a poll tick or with the clock.
C1_BusyCommandIsNoOp ==
    [][ /\ (remaining_cycles # 0 /\ CommandStep)
           => /\ UNCHANGED prog_vars
              /\ UNCHANGED <<started, trace, clean, admitted_cmd>>
              /\ ~last_call'.admitted
        /\ (remaining_cycles = 0 /\ remaining_cycles' # 0)
           => (CommandStep /\ last_call'.admitted) ]_vars

\* C1 witness: a turnOff() has just been dropped during a turn-on sequence
\* whose charger pulse is in flight.
C1_Witness ==
    /\ last_call.op = "turnOff"
    /\ ~last_call.admitted
    /\ remaining_cycles > 0
    /\ chrg.constructed

\* C2: the poll tick that observes a charger Error (on whichever pulse of a
\* turn-on or turn-off sequence) destroys the charger instance, forces the
\* counter to 0 and sets Health = Error in that same tick; afterwards no poll
\* tick constructs a charger or moves the counter until a command is admitted.
C2_ErrorAborts ==
    [][ /\ (PollCall /\ last_call'.status = "Error")
           => /\ chrg' = NoCharger
              /\ remaining_cycles' = 0
              /\ health' = "Error"
              /\ magnet_cmd' = "none"
        /\ (PollCall /\ remaining_cycles = 0)
           => /\ chrg' = NoCharger
              /\ started' = started
              /\ remaining_cycles' = 0 ]_vars

\* C2 witness: the last pulse of a full turn-off sequence has just failed.
C2_Witness ==
    /\ last_call.op = "poll"
    /\ last_call.status = "Error"
    /\ admitted_cmd.op = "turnOff"
    /\ Len(started) = TurnOffCycleArraySize
    /\ Len(trace) = TurnOffCycleArraySize - 1
    /\ remaining_cycles = 0
    /\ health = "Error"

\* C3: one charger pulse at a time.  A charger instance exists only while
\* remaining_cycles # 0; it is constructed only by a poll tick that finds
\* none, is never replaced while it exists, and is destroyed only by the poll
\* tick in which it reports Done or Error.
C3_OnePulseInFlight ==
    [][ /\ chrg'.constructed => remaining_cycles' # 0
        /\ (~chrg.constructed /\ chrg'.constructed)
           => /\ PollCall
              /\ remaining_cycles # 0
              /\ last_call'.status = "InProgress"
              /\ Len(started') = Len(started) + 1
        /\ (chrg.constructed /\ chrg'.constructed) => chrg' = chrg
        /\ (chrg.constructed /\ ~chrg'.constructed)
           => /\ PollCall
              /\ last_call'.status \in {"Done", "Error"}
        /\ Len(started') > Len(started)
           => /\ PollCall
              /\ ~chrg.constructed
              /\ Len(started') = Len(started) + 1 ]_vars

\* C3 witness: the sequencer is idle again, without a charger instance, after
\* a sequence that ran more than one pulse.
C3_Witness ==
    /\ remaining_cycles = 0
    /\ ~chrg.constructed
    /\ Len(started) > 1
    /\ last_call.op = "poll"

\* What pollOff is expected to do with Cycle Table entry i (zero-based): the
\* charger's target voltage and the actuator command.
ExpectedPulse(i) ==
    <<TurnOffCycleArray(i)[1],
      IF TurnOffCycleArray(i)[2] = 1 THEN "pos" ELSE "neg">>

\* C4: with a charger that reports Done on every poll, a turnOff() admitted
\* with Pole State = true sets the counter to -43 and drives exactly 43
\* pulses, one charger instance per poll tick, targeting the voltage of Cycle
\* Table entry 0, 1, ..., 42 in that order and commanding the actuator to each
\* entry's polarity; it ends with counter = 0, Pole State = false, Health = Ok.
C4_FullTurnOff ==
    (admitted_cmd.op = "turnOff" /\ admitted_cmd.was_on /\ clean)
    => LET k == Len(trace) IN
       /\ TurnOffCycleArraySize = 43
       /\ remaining_cycles = k - 43
       /\ Len(started) = k
       /\ ~chrg.constructed
       /\ \A i \in 1 .. k :
             /\ trace[i] = ExpectedPulse(i - 1)
             /\ started[i] = TurnOffCycleArray(i - 1)[1]
       /\ (remaining_cycles = 0)
          => (k = 43 /\ ~magnet_is_on /\ health = "Ok")

\* C4 witness: a turn-off sequence admitted with the magnet on has completed
\* without a single InProgress or Error poll.
C4_Witness ==
    /\ admitted_cmd.op = "turnOff"
    /\ admitted_cmd.was_on
    /\ clean
    /\ remaining_cycles = 0
    /\ Len(trace) = TurnOffCycleArraySize
    /\ last_call.op = "poll"

Clamp(n, lo, hi) == IF n < lo THEN lo ELSE IF n > hi THEN hi ELSE n

\* C5: a turnOn(n) called with the sequencer idle and not rate-limited is
\* admitted for every n: right after it the counter is
\* clamp(n, MinTurnOnCycles, MaxCycles), the last-command timestamp is the
\* current time, and Pole State, Health and the error flags are unchanged.
C5_TurnOnClamps ==
    [][ \A n \in RequestedCycles :
          ( /\ turnOn(n)
            /\ remaining_cycles = 0
            /\ ~(magnet_is_on /\ now - last_command_ts < MinCommandInterval) )
          => /\ remaining_cycles' = Clamp(n, MinTurnOnCycles, MaxCycles)
             /\ last_command_ts' = now'
             /\ last_call'.admitted
             /\ UNCHANGED <<magnet_is_on, health, charger_status_flags>> ]_vars

\* C5 witness: turnOn(50) has just been admitted, later than boot, and the
\* counter reads MaxCycles.
C5_Witness ==
    /\ last_call = Call("turnOn", 50, "none", TRUE)
    /\ remaining_cycles = MaxCycles
    /\ now > 0
    /\ last_command_ts = now

\* C6: with the sequencer idle and less than the minimum command interval
\* (2500 ms) since the last accepted command, a turnOn(n) with Pole State =
\* true and a turnOff() with Pole State = false are no-ops: the counter stays
\* 0 and the last-command timestamp (like the rest of the state) is unchanged.
C6_RedundantRateLimited ==
    [][ (remaining_cycles = 0 /\ now - last_command_ts < 2500)
        => /\ (TurnOnCall /\ magnet_is_on)
              => /\ remaining_cycles' = 0
                 /\ UNCHANGED prog_vars
                 /\ ~last_call'.admitted
           /\ (TurnOffCall /\ ~magnet_is_on)
              => /\ remaining_cycles' = 0
                 /\ UNCHANGED prog_vars
                 /\ ~last_call'.admitted ]_vars

\* C6 witness: a turnOn(1) sequence has completed with Pole State = true and a
\* second turnOn(1), less than the minimum interval after the first was
\* accepted, has just been dropped.
C6_Witness ==
    /\ admitted_cmd = Command("turnOn", 1, FALSE)
    /\ Len(trace) = 1
    /\ magnet_is_on
    /\ remaining_cycles = 0
    /\ last_call = Call("turnOn", 1, "none", FALSE)
    /\ now - last_command_ts < MinCommandInterval

\* C7: the rate limit applies to redundant commands only.  With the sequencer
\* idle, a turnOn(n) with Pole State = false and a turnOff() with Pole State =
\* true are admitted whatever the time since the last accepted command: the
\* counter becomes non-zero (positive, negative) and the timestamp is set.
C7_StateChangingAdmitted ==
    [][ (remaining_cycles = 0)
        => /\ (TurnOnCall /\ ~magnet_is_on)
              => /\ remaining_cycles' > 0
                 /\ last_command_ts' = now'
                 /\ last_call'.admitted
           /\ (TurnOffCall /\ magnet_is_on)
              => /\ remaining_cycles' < 0
                 /\ last_command_ts' = now'
                 /\ last_call'.admitted ]_vars

\* C7 witness: a turnOn has been admitted with the magnet off right after a
\* sequence was aborted by a charger fault (Health is still Error), less than
\* the minimum interval after boot, hence after the aborted command.
C7_Witness ==
    /\ last_call.op = "turnOn"
    /\ last_call.admitted
    /\ health = "Error"
    /\ ~magnet_is_on
    /\ now = TimeStep
    /\ now < MinCommandInterval
    /\ last_command_ts = now

\* C8: an admitted turnOff() that finds Pole State = false sets the counter to
\* -(43 - 3); with an always-Done charger the sequence starts at Cycle Table
\* index 3 and drives exactly 43 - 3 pulses, 3 fewer than the 43 of a
\* turnOff() admitted with Pole State = true.
C8_RedundantTurnOffSkips ==
    /\ (admitted_cmd.op = "turnOff" /\ ~admitted_cmd.was_on /\ clean)
       => LET k == Len(trace) IN
          /\ remaining_cycles = k - (43 - 3)
          /\ Len(started) = k
          /\ \A i \in 1 .. k :
                /\ trace[i] = ExpectedPulse(i - 1 + 3)
                /\ started[i] = TurnOffCycleArray(i - 1 + 3)[1]
    /\ (admitted_cmd.op = "turnOff" /\ clean /\ remaining_cycles = 0)
       => Len(started) = (IF admitted_cmd.was_on THEN 43 ELSE 43 - 3)

\* C8 witness: a turn-off sequence admitted with the magnet already off has
\* completed without a single InProgress or Error poll.
C8_Witness ==
    /\ admitted_cmd.op = "turnOff"
    /\ ~admitted_cmd.was_on
    /\ clean
    /\ remaining_cycles = 0
    /\ Len(trace) = TurnOffCycleArraySize - TurnOffSkipCycles

\* C9: in the TurningOn state (counter = c > 0) a poll tick in which the
\* charger reports Done commands the actuator to positive polarity, sets Pole
\* State = true, destroys the charger instance, sets the counter to c - 1 and
\* Health = Ok; every charger instance of a turn-on sequence targets 475.
C9_TurnOnPulseDone ==
    [][ /\ (PollCall /\ remaining_cycles > 0 /\ last_call'.status = "Done")
           => /\ magnet_cmd' = "pos"
              /\ magnet_is_on' = TRUE
              /\ chrg' = NoCharger
              /\ remaining_cycles' = remaining_cycles - 1
              /\ health' = "Ok"
        /\ (remaining_cycles' > 0 /\ chrg'.constructed)
           => chrg'.target = 475
        /\ (admitted_cmd'.op = "turnOn")
           => \A i \in 1 .. Len(started') : started'[i] = 475 ]_vars

\* C9 witness: turnOn(50) was admitted from idle/off (counter 10) and one
\* Done has been observed: Pole State = true, counter = 9, Health = Ok.
C9_Witness ==
    /\ admitted_cmd = Command("turnOn", 50, FALSE)
    /\ last_call.op = "poll"
    /\ last_call.status = "Done"
    /\ Len(trace) = 1
    /\ magnet_is_on
    /\ remaining_cycles = 9
    /\ health = "Ok"

\* C10 as stated: the last Cycle Table entry has polarity 'off', and in a
\* turn-off sequence started with Pole State = true, Pole State stays true
\* until that last entry (the 43rd pulse) completes, and then becomes false.
C10_Original ==
    (admitted_cmd.op = "turnOff" /\ admitted_cmd.was_on)
    => /\ magnet_is_on <=> (Len(trace) < TurnOffCycleArraySize)
       /\ (Len(trace) = TurnOffCycleArraySize)
          => trace[TurnOffCycleArraySize][2] = "neg"

\* C10 (amended): the first Cycle Table entry has polarity 0 and the last one
\* polarity 1; in a turn-off sequence started with Pole State = true, Pole
\* State stays true until the first pulse (entry 0) completes successfully,
\* becomes false at that point and stays false for the rest of the sequence.
C10_PoleStateDuringTurnOff ==
    (admitted_cmd.op = "turnOff" /\ admitted_cmd.was_on)
    => /\ magnet_is_on <=> (Len(trace) = 0)
       /\ (Len(trace) >= 1) => trace[1] = <<475, "neg">>
       /\ (Len(trace) = TurnOffCycleArraySize)
          => trace[TurnOffCycleArraySize][2] = "pos"

\* C10 witness: in a turn-off sequence started with the magnet on, the third
\* pulse, a positive one, has just completed and Pole State is false.
C10_Witness ==
    /\ admitted_cmd.op = "turnOff"
    /\ admitted_cmd.was_on
    /\ Len(trace) = 3
    /\ last_call.status = "Done"
    /\ magnet_cmd = "pos"
    /\ ~magnet_is_on

\* Bit k of the non-negative integer x.
BitOf(x, k) == (x \div (2 ^ k)) % 2

\* C11: getStatusFlags() is the latched charger error flags with the
\* 'switching on' bit set exactly when the counter is positive and the
\* 'switching off' bit set exactly when it is negative, and nothing else; the
\* two bits are never set together and neither is set when idle;
\* isTurnedOn() is Pole State and getHealth() is Health.
C11_StatusFlags ==
    LET x == getStatusFlags IN
    /\ x % (2 ^ ErrorFlagsBitLength) = charger_status_flags
    /\ BitOf(x, ErrorFlagsBitLength) = 1 <=> remaining_cycles > 0
    /\ BitOf(x, ErrorFlagsBitLength + 1) = 1 <=> remaining_cycles < 0
    /\ x < 2 ^ (ErrorFlagsBitLength + 2)
    /\ ~(BitOf(x, ErrorFlagsBitLength) = 1
          /\ BitOf(x, ErrorFlagsBitLength + 1) = 1)
    /\ (remaining_cycles = 0) => x = charger_status_flags
    /\ isTurnedOn = magnet_is_on
    /\ getHealth = health

\* C11 witness: during a turn-off sequence, with a charger fault bit latched,
\* the status is that bit plus the 'switching off' bit.
C11_Witness ==
    /\ remaining_cycles < 0
    /\ charger_status_flags = 1
    /\ getStatusFlags = 1 + 2 ^ (ErrorFlagsBitLength + 1)

\* C12 as stated, on the entries a turn-off sequence drives one after the
\* other: each has a strictly lower voltage than, and a polarity different
\* from, the entry before it.
C12_Original ==
    (admitted_cmd.op = "turnOff")
    => \A j \in 1 .. Len(trace) - 1 :
          /\ trace[j + 1][1] < trace[j][1]
          /\ trace[j + 1][2] # trace[j][2]

\* C12 (amended): over the whole Cycle Table no entry has a higher voltage
\* than the entry before it; the voltage is strictly lower up to entry 30
\* (475 down to 20) and stays at 20 for entries 31..42; the polarity differs
\* from the previous entry's except for entries 0 and 1, both of polarity 0.
\* The pulses a turn-off sequence drives follow that shape.
C12_TableShape ==
    /\ \A i \in 0 .. TurnOffCycleArraySize - 2 :
          /\ TurnOffCycleArray(i + 1)[1] <= TurnOffCycleArray(i)[1]
          /\ TurnOffCycleArray(i + 1)[1] < TurnOffCycleArray(i)[1] <=> i < 30
          /\ TurnOffCycleArray(i + 1)[2] # TurnOffCycleArray(i)[2] <=> i >= 1
    /\ (admitted_cmd.op = "turnOff")
       => \A j \in 1 .. Len(trace) - 1 :
             /\ trace[j + 1][1] <= trace[j][1]
             /\ (trace[j + 1][1] = trace[j][1]) => trace[j][1] = 20
             /\ (trace[j + 1][2] = trace[j][2])
                => (j = 1 /\ admitted_cmd.was_on)

\* C12 witness: a turn-off sequence has driven the whole table, its two
\* leading negative pulses and its tail of equal voltages included.
C12_Witness ==
    /\ admitted_cmd.op = "turnOff"
    /\ Len(trace) = TurnOffCycleArraySize
    /\ trace[1][2] = trace[2][2]
    /\ trace[TurnOffCycleArraySize - 1][1] = trace[TurnOffCycleArraySize][1]

Abs(x) == IF x < 0 THEN -x ELSE x

\* C14: the counter leaves 0 only through an admitted turnOn (to a positive
\* value) or turnOff (to a negative value); while non-zero it changes only in
\* a poll tick that observes a terminal charger outcome, by exactly 1 toward 0
\* on Done and to 0 on Error; it never changes sign without passing through 0
\* and its magnitude never grows during a sequence.
C14_CounterTransitions ==
    [][ /\ (remaining_cycles = 0 /\ remaining_cycles' # 0)
           => /\ CommandStep
              /\ last_call'.admitted
              /\ TurnOnCall => remaining_cycles' > 0
              /\ TurnOffCall => remaining_cycles' < 0
        /\ (remaining_cycles # 0 /\ remaining_cycles' # remaining_cycles)
           => /\ PollCall
              /\ last_call'.status \in {"Done", "Error"}
        /\ (remaining_cycles # 0 /\ PollCall /\ last_call'.status = "Done")
           => /\ Abs(remaining_cycles') = Abs(remaining_cycles) - 1
              /\ remaining_cycles' * remaining_cycles >= 0
        /\ (remaining_cycles # 0 /\ PollCall /\ last_call'.status = "Error")
           => remaining_cycles' = 0
        /\ (remaining_cycles > 0) => remaining_cycles' >= 0
        /\ (remaining_cycles < 0) => remaining_cycles' <= 0
        /\ (remaining_cycles # 0)
           => Abs(remaining_cycles') <= Abs(remaining_cycles) ]_vars

\* C14 witness: the last Done of a turn-on sequence of more than one pulse
\* has brought the counter back to 0.
C14_Witness ==
    /\ admitted_cmd.op = "turnOn"
    /\ Len(trace) > 1
    /\ remaining_cycles = 0
    /\ last_call.op = "poll"
    /\ last_call.status = "Done"

\* C16: a poll tick in which the charger reports InProgress, in a turn-on or
\* a turn-off sequence, leaves the counter, Pole State, Health and the
\* last-command timestamp unchanged, commands no actuator polarity and keeps
\* the charger instance it polled alive for the next tick.
C16_InProgressKeepsState ==
    [][ (PollCall /\ remaining_cycles # 0 /\ last_call'.status = "InProgress")
        => /\ UNCHANGED <<remaining_cycles, magnet_is_on, health,
                          last_command_ts, trace>>
           /\ magnet_cmd' = "none"
           /\ chrg'.constructed
           /\ chrg.constructed => chrg' = chrg ]_vars

\* C16 witness: the charger of a turn-off pulse has just reported InProgress
\* and is still alive, while Health is Error from an earlier sequence.
C16_Witness ==
    /\ last_call.op = "poll"
    /\ last_call.status = "InProgress"
    /\ remaining_cycles < 0
    /\ chrg.constructed
    /\ Len(started) = Len(trace) + 1
    /\ health = "Error"

\* C17: a poll tick with the counter at 0 changes nothing (no charger is
\* constructed, no polarity commanded); no command call changes Pole State
\* or the error flags; so Pole State changes only in a poll tick that observes
\* Done, and the charger's fault bits stay latched in getStatusFlags() until
\* the next poll tick that polls a charger.
C17_StableWhileIdle ==
    [][ /\ (PollCall /\ remaining_cycles = 0)
           => /\ UNCHANGED prog_vars
              /\ UNCHANGED <<started, trace>>
              /\ magnet_cmd' = "none"
              /\ getStatusFlags' = getStatusFlags
        /\ CommandStep
           => /\ UNCHANGED <<magnet_is_on, charger_status_flags>>
              /\ magnet_cmd' = "none"
        /\ (magnet_is_on' # magnet_is_on)
           => (PollCall /\ last_call'.status = "Done")
        /\ (charger_status_flags' # charger_status_flags)
           => (PollCall /\ remaining_cycles # 0)
        /\ (getStatusFlags' % (2 ^ ErrorFlagsBitLength)
              # getStatusFlags % (2 ^ ErrorFlagsBitLength))
           => (PollCall /\ remaining_cycles # 0) ]_vars

\* C17 witness: an idle poll tick has run with the magnet on and a charger
\* fault bit latched.
C17_Witness ==
    /\ last_call.op = "poll"
    /\ last_call.status = "idle"
    /\ remaining_cycles = 0
    /\ charger_status_flags # 0
    /\ magnet_is_on
    /\ getStatusFlags = charger_status_flags

\* C20: the counter always lies in -43 .. MaxCycles, so whenever the
\* sequencer is turning off the Cycle Table index pollOff computes,
\* table_length - |counter|, lies in 0 .. 42: the table is never read out of
\* bounds.
C20_CounterBounds ==
    /\ -43 <= remaining_cycles
    /\ remaining_cycles <= MaxCycles
    /\ -TurnOffCycleArraySize <= remaining_cycles
    /\ (remaining_cycles < 0)
       => /\ CycleIndex(remaining_cycles) = 43 - Abs(remaining_cycles)
          /\ CycleIndex(remaining_cycles) >= 0
          /\ CycleIndex(remaining_cycles) <= TurnOffCycleArraySize - 1

\* C20 witness: the counter is at its lower bound and a poll tick has read
\* entry 0 of the table for a charger that is still in progress.
C20_Witness ==
    /\ remaining_cycles = -TurnOffCycleArraySize
    /\ CycleIndex(remaining_cycles) = 0
    /\ admitted_cmd.op = "turnOff"
    /\ last_call.op = "poll"
    /\ chrg.constructed

\* The most pulses a sequence may take: MaxCycles for a turn-on, the table's
\* length for a turn-off.
PulseBudget ==
    IF admitted_cmd.op = "turnOn" THEN MaxCycles ELSE TurnOffCycleArraySize

\* C15: if poll() keeps being called and every charger instance ends in Done
\* or Error, every admitted sequence returns to idle (counter = 0), after at
\* most MaxCycles pulses (turn-on) or table_length pulses (turn-off); the
\* counter returns to 0 only in a poll tick that observes Done or Error (there
\* is no cancel).
C15_Termination ==
    /\ (remaining_cycles # 0) ~> (remaining_cycles = 0)
    /\ [][ /\ Len(started') <= PulseBudget'
           /\ (remaining_cycles # 0 /\ remaining_cycles' = 0)
              => /\ PollCall
                 /\ last_call'.status \in {"Done", "Error"}
                 /\ Len(started') >= 1 ]_vars

\* C15 witness: a turn-on sequence of MaxCycles pulses has run to completion
\* although some polls found the charger still in progress.
C15_Witness ==
    /\ admitted_cmd.op = "turnOn"
    /\ remaining_cycles = 0
    /\ Len(trace) = MaxCycles
    /\ Len(started) = MaxCycles
    /\ ~clean
    /\ last_call.status = "Done"

\* The handler has run for a message addressed to this hardpoint.
HandledForMe(c) == handleHardpointCommand(getHardpointID, c)

\* C13: a command message addressed to another hardpoint ID has no effect
\* (on the sequencer or on last_command).  For a message addressed to this
\* hardpoint: if its payload equals the previous such message's payload and
\* its boolean value equals isTurnedOn(), neither turnOn nor turnOff is
\* called; otherwise payload 0 calls turnOff() and a payload c # 0 calls
\* turnOn(min(c, MaxCycles)); either way the payload is remembered.
C13_BusCommandHandling ==
    [][ \A c \in BusCommands :
          /\ (\E id \in HardpointIDs :
                 id # DipSwitch /\ handleHardpointCommand(id, c))
             => /\ UNCHANGED <<prog_vars, last_command>>
                /\ last_call'.op = "handleHardpointCommand"
          /\ (HandledForMe(c) /\ c = last_command
                /\ (c # 0) = magnet_is_on)
             => /\ UNCHANGED prog_vars
                /\ last_call'.op = "handleHardpointCommand"
                /\ last_command' = c
          /\ (HandledForMe(c) /\ ~(c = last_command
                                     /\ (c # 0) = magnet_is_on))
             => /\ (c = 0) => turnOff
                /\ (c # 0) => turnOn(IF c < MaxCycles THEN c ELSE MaxCycles)
                /\ last_command' = c ]_vars

\* C13 witness: a message with more cycles than MaxCycles has been handled
\* with the magnet off, and turnOn(MaxCycles) was called and admitted.
C13_Witness ==
    /\ last_command = MaxCycles + 1
    /\ last_call = Call("turnOn", MaxCycles, "none", TRUE)
    /\ admitted_cmd = Command("turnOn", MaxCycles, FALSE)
    /\ remaining_cycles = MaxCycles

\* C18 as stated: handling the first command message for this hardpoint
\* always starts a switching sequence (the counter becomes non-zero),
\* whatever its payload, the Pole State and the time since boot.
C18_FirstCommandForcesSwitch ==
    [][ \A c \in BusCommands :
          (HandledForMe(c) /\ last_command = LastCommandInitial)
          => remaining_cycles' # 0 ]_vars

\* C19: if from some point on the bus sends this hardpoint the payload c
\* only, and keeps sending it, while poll() keeps being called and every
\* charger pulse ends in Done, then eventually the sequencer is idle with
\* isTurnedOn() = (c # 0), and stays so: no further sequence is started.
C19_BusCommandConverges ==
    \A c \in BusCommands :
        <>[]( (bus_payloads = {c})
              => (remaining_cycles = 0 /\ isTurnedOn = (c # 0)) )

\* C19 witness: the bus has settled on "on", a turnOn dropped during a
\* turn-off sequence was repeated and admitted later, and the magnet is now
\* on with the sequencer idle.
C19_Witness ==
    /\ bus_payloads = {1}
    /\ last_command = 1
    /\ admitted_cmd = Command("turnOn", 1, FALSE)
    /\ remaining_cycles = 0
    /\ magnet_is_on
    /\ health = "Ok"
    /\ now = MaxTime

(***************************************************************************)
(* Health and Pole State across faults.                                    *)
(***************************************************************************)
\* A poll tick that ran the charger and saw it finish, one way or the other.
TerminalPoll(status) ==
    /\ PollCall
    /\ remaining_cycles # 0
    /\ last_call'.status = status

\* C21: Health is two-valued and latched.  It starts as Ok and is Ok or
\* Error in every reachable state, never Warning, whatever error flags the
\* charger reports; a poll tick whose pulse ends Done sets it to Ok, one
\* whose pulse ends Error sets it to Error, and no other step (a command,
\* admitted or rejected, an in-progress or idle poll, the clock) changes it.
\* So Health is Error exactly when the most recent terminal charger outcome
\* was Error, and an Error persists through a newly admitted sequence until
\* that sequence's first Done.
C21_HealthLatched ==
    /\ health = "Ok"
    /\ [](health \in {"Ok", "Error"})
    /\ [][ /\ TerminalPoll("Done") => health' = "Ok"
           /\ TerminalPoll("Error") => health' = "Error"
           /\ ~(TerminalPoll("Done") \/ TerminalPoll("Error"))
              => health' = health
           /\ CommandStep => health' = health ]_vars

\* C21 witness: after a fault, a new turn-on sequence has been admitted and
\* its first pulse is in progress, with the charger reporting an error flag;
\* Health still shows the Error of the earlier sequence.
C21_Witness ==
    /\ health = "Error"
    /\ admitted_cmd.op = "turnOn"
    /\ remaining_cycles > 0
    /\ Len(trace) = 0
    /\ chrg.constructed
    /\ last_call = Call("poll", 0, "InProgress", FALSE)
    /\ charger_status_flags # 0

\* C22: Pole State after a partial sequence.  From the admission of a
\* turn-on command up to the next admission, Pole State is the one the
\* command found until the first pulse is Done, and true from then on, also
\* after a later pulse has faulted and aborted the sequence.  From the
\* admission of a turn-off command up to the next admission, Pole State is
\* the one the command found until a pulse of a polarity-0 entry is Done,
\* and false from then on: positive-polarity pulses and a later fault leave
\* it false.
C22_PoleStateAfterPartialSequence ==
    /\ (admitted_cmd.op = "turnOn")
       => magnet_is_on = (admitted_cmd.was_on \/ Len(trace) >= 1)
    /\ (admitted_cmd.op = "turnOff")
       => magnet_is_on =
             /\ admitted_cmd.was_on
             /\ \A i \in 1 .. Len(trace) : trace[i][2] # "neg"

\* C22 witness: a turn-off sequence that found the magnet on has completed
\* its first, negative pulse and two positive ones and was then aborted by
\* a fault before the table was finished; Pole State is false.
C22_Witness ==
    /\ admitted_cmd = Command("turnOff", 0, TRUE)
    /\ Len(trace) = 3
    /\ trace[1][2] = "neg"
    /\ trace[3][2] = "pos"
    /\ last_call = Call("poll", 0, "Error", FALSE)
    /\ remaining_cycles = 0
    /\ health = "Error"
    /\ ~magnet_is_on
====
